---------------------------- MODULE Spec2Model ----------------------------
(***************************************************************************)
(* A model of dyndic-segmentation (src/src/main.rs): the recursive lazy    *)
(* path enumerator GenResult, the per-image blob detector (dual-threshold  *)
(* flood fill) and classifier (size and circularity), and the parallel     *)
(* pipeline that main builds over the input roots.                         *)
(*                                                                         *)
(* Three specifications share the module's variables:                      *)
(*   SpecImage  one image through detect -> classify -> invert             *)
(*   SpecEnum   one GenResult pulled to exhaustion over a directory tree   *)
(*   SpecPool   main's worker pool over several roots                      *)
(***************************************************************************)
EXTENDS Integers, Sequences, FiniteSets, TLC

VARIABLES
    \* ---- one image (main.rs 110-168) ----
    img,      \* the decoded Luma8 image: [w, h, px], px indexed y*w+x
    vis,      \* the visited array, indexed y*w+x
    q,        \* the flood fill's work queue (LinkedList)
    blob,     \* the blob under construction (Vec<(u32,u32)>)
    blobs,    \* the blobs recorded so far
    out,      \* the output mask, indexed y*w+x
    pos,      \* position of enumerate_pixels (row-major index)
    ci,       \* number of blobs the classifier loop has consumed
    ipc       \* where the image's closure stands

VARIABLES
    \* ---- the file system and one enumeration (main.rs 15-76, 88-107) ----
    fs,       \* the directory tree, in preorder: a sequence of [d, k]
    root,     \* the input root: a node of fs, or 0 for a path that does not exist
    gen,      \* the GenResult, <<>> before it is built
    isDir,    \* matches!(res, GenResult::Dir(_, _))
    yielded,  \* the items the mapped iterator has yielded so far
    epc       \* "open", "iter" or "end"

VARIABLES
    \* ---- main's parallel pipeline (main.rs 85-191) ----
    roots,      \* args.images: the input roots, nodes of fs (0: a missing path)
    pgens,      \* per root: its GenResult behind par_bridge, once built
    wk,         \* per worker: what it holds of the task it is running
    completion, \* the collected Vec of outcomes
    failed,     \* the tasks one of whose stages failed (history)
    summary     \* the counts main prints, <<>> before it prints

imgVars == <<img, vis, q, blob, blobs, out, pos, ci, ipc>>

poolVars == <<roots, pgens, wk, completion, failed, summary>>

enumVars == <<fs, root, gen, isDir, yielded, epc>>

vars == <<img, vis, q, blob, blobs, out, pos, ci, ipc,
          fs, root, gen, isDir, yielded, epc,
          roots, pgens, wk, completion, failed, summary>>

-----------------------------------------------------------------------------
(* Bounds of the model *)

\* Every image of width and height at most GridSide and of at most MaxCells
\* pixels is explored, with every pixel drawn from PixelValues.
GridSide == 3

MaxCells == 9

\* Besides, the straight dark lines of N pixels for N in 1..MaxLine: alone in
\* an N-by-1 or a 1-by-N image, and across a background image.
MaxLine == 30

\* And the filled dark disks of squared radius 1..MaxDiskSq on a background.
MaxDiskSq == 16

\* The directory trees have at most MaxNodes entries in all.
MaxNodes == 4

\* The directory trees of the pipeline's runs have at most PoolNodes entries.
PoolNodes == 3

\* The runs checked for termination: every image of width and height at most
\* LiveSide besides the lines and the disks, and trees of at most LiveNodes
\* entries.
LiveSide == 2

LiveNodes == 2

-----------------------------------------------------------------------------
(* Program constants *)

MAX_BLACK == 40

MAX_GRAY == 60

\* blob.len() < 3 || blob.len() > 10000
MIN_LEN == 3

MAX_LEN == 10000

FOREGROUND == 255

\* 9 / (4 pi^2) = 0.2279726631952599..., bracketed by KappaLo/KappaDen and
\* KappaHi/KappaDen.  With len = blob.len() and (sx, sy) the folded sums,
\*   hypot(x - sx/len, y - sy/len) > len / PI * 1.5
\* is, in exact arithmetic,
\*   ((len*x - sx)^2 + (len*y - sy)^2) / len^4  >  9 / (4 pi^2).
KappaLo == 227972663

KappaHi == 227972664

KappaDen == 1000000000

-----------------------------------------------------------------------------
(* u32 arithmetic.  A u32 is represented by the signed reading of its 32   *)
(* bits, so 0u32.wrapping_add_signed(-1) = 0xFFFFFFFF is -1 here and the   *)
(* comparisons on u32 are the unsigned ones.                               *)

I32_MAX == 2147483647

\* u32::wrapping_add_signed for d in -1 .. 1: the sum wraps at the two ends of
\* the signed reading (0x7FFFFFFF + 1 = 0x80000000), and 0 - 1 is -1, the
\* signed reading of 0xFFFFFFFF.
WrappingAddSigned(a, d) ==
    IF a = I32_MAX /\ d = 1 THEN -I32_MAX - 1
    ELSE IF a = -I32_MAX - 1 /\ d = -1 THEN I32_MAX
    ELSE a + d

\* The comparison of the signed readings.
UGeSigned(a, b) == a >= b

\* a >= b on u32
UGe(a, b) == IF (a < 0) = (b < 0) THEN a >= b ELSE a < 0

-----------------------------------------------------------------------------
(* Exact comparison of fractions of naturals without forming products.     *)

RECURSIVE FracGT(_, _, _, _)
\* a/b > c/d, for a, c >= 0 and b, d > 0
FracGT(a, b, c, d) ==
    LET qa == a \div b
        qc == c \div d
        ra == a % b
        rc == c % d
    IN  IF qa # qc THEN qa > qc
        ELSE IF ra = 0 THEN FALSE
        ELSE IF rc = 0 THEN TRUE
        ELSE FracGT(d, rc, b, ra)

-----------------------------------------------------------------------------
(* The image *)

PixelValues == {MAX_BLACK, MAX_GRAY, MAX_GRAY + 1}

Idx(im, x, y) == y * im.w + x

PixelAt(im, x, y) == im.px[Idx(im, x, y)]

SmallImages ==
    UNION { { [w |-> w, h |-> h, px |-> f] : f \in [0 .. (w * h - 1) -> PixelValues] }
            : <<w, h>> \in { d \in (1 .. GridSide) \X (1 .. GridSide) : d[1] * d[2] <= MaxCells } }

\* An image of one row (or one column) of n dark pixels.
HLine(n) == [w |-> n, h |-> 1, px |-> [i \in 0 .. (n - 1) |-> MAX_BLACK]]

VLine(n) == [w |-> 1, h |-> n, px |-> [i \in 0 .. (n - 1) |-> MAX_BLACK]]

\* A row of n dark pixels in the middle of a background image.
EmbeddedLine(n) ==
    [w |-> n + 2, h |-> 3,
     px |-> [i \in 0 .. (3 * (n + 2) - 1) |->
                IF i \div (n + 2) = 1 /\ i % (n + 2) \in 1 .. n
                THEN MAX_BLACK ELSE MAX_GRAY + 1]]

LineImages ==
    UNION { {HLine(n), VLine(n), EmbeddedLine(n)} : n \in 1 .. MaxLine }

\* The largest r with r * r <= k.
Isqrt(k) == CHOOSE r \in 0 .. k : r * r <= k /\ k < (r + 1) * (r + 1)

\* The filled disk of squared radius k about the centre of a background image
\* that leaves one background pixel around it, drawn at the seed threshold.
Disk(k) ==
    LET c    == Isqrt(k) + 1
        side == 2 * c + 1
    IN  [w |-> side, h |-> side,
         px |-> [i \in 0 .. (side * side - 1) |->
                    LET dx == (i % side) - c
                        dy == (i \div side) - c
                    IN  IF dx * dx + dy * dy <= k THEN MAX_BLACK ELSE MAX_GRAY + 1]]

DiskImages == { Disk(k) : k \in 1 .. MaxDiskSq }

Images == SmallImages \cup LineImages \cup DiskImages

\* A neighbourhood whose last step is a diagonal one.
DeltasDiagonal == << <<0, 1>>, <<0, -1>>, <<1, 0>>, <<-1, -1>> >>

\* [(0, 1), (0, -1), (1, 0), (-1, 0)]
Deltas == << <<0, 1>>, <<0, -1>>, <<1, 0>>, <<-1, 0>> >>

\* The neighbour loop's test: the neighbour is skipped (continue).
NeighbourSkipped(im, v, cx, cy) ==
    \/ UGe(cx, im.w)
    \/ UGe(cy, im.h)
    \/ v[Idx(im, cx, cy)]
    \/ PixelAt(im, cx, cy) > MAX_GRAY

RECURSIVE PushNeighbours(_, _, _, _, _, _)
\* The queue after the neighbour loop from delta k on, for the pixel (x, y).
PushNeighbours(im, v, qq, x, y, k) ==
    IF k > Len(Deltas) THEN qq
    ELSE LET cx == WrappingAddSigned(x, Deltas[k][1])
             cy == WrappingAddSigned(y, Deltas[k][2])
         IN  PushNeighbours(im, v,
                 IF NeighbourSkipped(im, v, cx, cy) THEN qq ELSE Append(qq, <<cx, cy>>),
                 x, y, k + 1)

\* A seed test that does not look at the visited array.
SeedSkippedIgnoresVisited(im, v, x, y) == PixelAt(im, x, y) > MAX_BLACK

\* A seed test that passes over a pixel of intensity MAX_BLACK itself.
SeedSkippedAtThreshold(im, v, x, y) == v[Idx(im, x, y)] \/ PixelAt(im, x, y) >= MAX_BLACK

\* if vis[..] || px.0[0] > MAX_BLACK { continue; }
SeedSkipped(im, v, x, y) == v[Idx(im, x, y)] \/ PixelAt(im, x, y) > MAX_BLACK

\* let mut blob = vec![(x, y)];
NewBlob(x, y) == << <<x, y>> >>

\* if blob.len() > 1 { blobs.push(blob); }
Recorded(b) == Len(b) > 1

\* A size test that lets a blob.len() of 2 through.
SizeRejectedBelowTwo(len) == len < MIN_LEN - 1 \/ len > MAX_LEN

\* if blob.len() < 3 || blob.len() > 10000 { continue; }
SizeRejected(len) == len < MIN_LEN \/ len > MAX_LEN

RECURSIVE SumCoord(_, _)
\* The fold of the k-th coordinate over the blob's list.
SumCoord(b, k) == IF b = <<>> THEN 0 ELSE b[1][k] + SumCoord(Tail(b), k)

\* (len*x - sx)^2 + (len*y - sy)^2
ScaledSqDist(pt, len, sx, sy) ==
    (len * pt[1] - sx) * (len * pt[1] - sx) + (len * pt[2] - sy) * (len * pt[2] - sy)

\* (x as f64 - cx).hypot(y as f64 - cy) > allowed_radius
Farther(pt, len, sx, sy) ==
    FracGT(ScaledSqDist(pt, len, sx, sy), len * len * len * len, KappaLo, KappaDen)

\* A shape test that rejects only when every point is too far.
ShapeRejectedAll(b) ==
    LET len == Len(b)
        sx  == SumCoord(b, 1)
        sy  == SumCoord(b, 2)
    IN  \A i \in 1 .. Len(b) : Farther(b[i], len, sx, sy)

\* blob.iter().copied().any(|(x, y)| ... > allowed_radius)
ShapeRejected(b) ==
    LET len == Len(b)
        sx  == SumCoord(b, 1)
        sy  == SumCoord(b, 2)
    IN  \E i \in 1 .. Len(b) : Farther(b[i], len, sx, sy)

\* A stamping loop that stops one point short of the blob's end.
StampAllButLast(im, o, b) ==
    [i \in DOMAIN o |-> IF \E k \in 1 .. (Len(b) - 1) : Idx(im, b[k][1], b[k][2]) = i
                        THEN FOREGROUND ELSE o[i]]

\* for pt in blob { out[pt] = [255].into(); }
Stamp(im, o, b) ==
    [i \in DOMAIN o |-> IF \E k \in 1 .. Len(b) : Idx(im, b[k][1], b[k][2]) = i
                        THEN FOREGROUND ELSE o[i]]

\* image::imageops::colorops::invert
Inverted(o) == [i \in DOMAIN o |-> 255 - o[i]]

-----------------------------------------------------------------------------
(* One image through the closure of main.rs 110-168 *)

IdlePool ==
    /\ roots = <<>>
    /\ pgens = <<>>
    /\ wk = <<>>
    /\ completion = <<>>
    /\ failed = {}
    /\ summary = <<>>

InitImage ==
    /\ img \in Images
    /\ vis = [i \in 0 .. (img.w * img.h - 1) |-> FALSE]
    /\ out = [i \in 0 .. (img.w * img.h - 1) |-> 0]
    /\ q = <<>>
    /\ blob = <<>>
    /\ blobs = <<>>
    /\ pos = 0
    /\ ci = 0
    /\ ipc = "scan"
    /\ fs = <<>>
    /\ root = 0
    /\ gen = <<>>
    /\ isDir = FALSE
    /\ yielded = <<>>
    /\ epc = "off"
    /\ IdlePool

PosX == pos % img.w

PosY == pos \div img.w

\* The outer loop passes over a pixel that is visited or not black.
ScanSkip ==
    /\ ipc = "scan"
    /\ pos < img.w * img.h
    /\ SeedSkipped(img, vis, PosX, PosY)
    /\ pos' = pos + 1
    /\ UNCHANGED <<img, vis, q, blob, blobs, out, ci, ipc, enumVars, poolVars>>

\* The outer loop starts a flood fill at an unvisited black pixel.
ScanSeed ==
    /\ ipc = "scan"
    /\ pos < img.w * img.h
    /\ ~SeedSkipped(img, vis, PosX, PosY)
    /\ q' = << <<PosX, PosY>> >>
    /\ blob' = NewBlob(PosX, PosY)
    /\ ipc' = "fill"
    /\ UNCHANGED <<img, vis, blobs, out, pos, ci, enumVars, poolVars>>

\* A dequeue that leaves the visited pixel at the head of the queue.
DequeueVisitedKeeps ==
    /\ ipc = "fill"
    /\ q # <<>>
    /\ vis[Idx(img, Head(q)[1], Head(q)[2])]
    /\ q' = q
    /\ UNCHANGED <<img, vis, blob, blobs, out, pos, ci, ipc, enumVars, poolVars>>

\* q.pop_front() gives a pixel already visited: continue.
DequeueVisited ==
    /\ ipc = "fill"
    /\ q # <<>>
    /\ vis[Idx(img, Head(q)[1], Head(q)[2])]
    /\ q' = Tail(q)
    /\ UNCHANGED <<img, vis, blob, blobs, out, pos, ci, ipc, enumVars, poolVars>>

\* q.pop_front() gives an unvisited pixel: mark, record, enqueue neighbours.
DequeueExpand ==
    /\ ipc = "fill"
    /\ q # <<>>
    /\ ~vis[Idx(img, Head(q)[1], Head(q)[2])]
    /\ LET x == Head(q)[1]
           y == Head(q)[2]
           v == [vis EXCEPT ![Idx(img, x, y)] = TRUE]
       IN  /\ vis' = v
           /\ blob' = Append(blob, <<x, y>>)
           /\ q' = PushNeighbours(img, v, Tail(q), x, y, 1)
    /\ UNCHANGED <<img, blobs, out, pos, ci, ipc, enumVars, poolVars>>

\* The queue is empty: the blob is recorded and the scan goes on.
FillDone ==
    /\ ipc = "fill"
    /\ q = <<>>
    /\ blobs' = IF Recorded(blob) THEN Append(blobs, blob) ELSE blobs
    /\ blob' = <<>>
    /\ pos' = pos + 1
    /\ ipc' = "scan"
    /\ UNCHANGED <<img, vis, q, out, ci, enumVars, poolVars>>

\* enumerate_pixels is exhausted: the classifier loop starts.
ScanDone ==
    /\ ipc = "scan"
    /\ pos = img.w * img.h
    /\ ipc' = "classify"
    /\ UNCHANGED <<img, vis, q, blob, blobs, out, pos, ci, enumVars, poolVars>>

\* The classifier loop rejects the next blob for its size.
RejectSize ==
    /\ ipc = "classify"
    /\ ci < Len(blobs)
    /\ SizeRejected(Len(blobs[ci + 1]))
    /\ ci' = ci + 1
    /\ UNCHANGED <<img, vis, q, blob, blobs, out, pos, ipc, enumVars, poolVars>>

\* The classifier loop rejects the next blob for its shape.
RejectShape ==
    /\ ipc = "classify"
    /\ ci < Len(blobs)
    /\ ~SizeRejected(Len(blobs[ci + 1]))
    /\ ShapeRejected(blobs[ci + 1])
    /\ ci' = ci + 1
    /\ UNCHANGED <<img, vis, q, blob, blobs, out, pos, ipc, enumVars, poolVars>>

\* The classifier loop accepts the next blob and stamps it.
StampBlob ==
    /\ ipc = "classify"
    /\ ci < Len(blobs)
    /\ ~SizeRejected(Len(blobs[ci + 1]))
    /\ ~ShapeRejected(blobs[ci + 1])
    /\ out' = Stamp(img, out, blobs[ci + 1])
    /\ ci' = ci + 1
    /\ UNCHANGED <<img, vis, q, blob, blobs, pos, ipc, enumVars, poolVars>>

\* invert(&mut out): the mask as it is persisted.
Invert ==
    /\ ipc = "classify"
    /\ ci = Len(blobs)
    /\ out' = Inverted(out)
    /\ ipc' = "done"
    /\ UNCHANGED <<img, vis, q, blob, blobs, pos, ci, enumVars, poolVars>>

-----------------------------------------------------------------------------
(* What the claims speak of *)

\* The member pixels of a blob: its coordinates, each counted once.
Members(b) == { b[i] : i \in 1 .. Len(b) }

PixelCount(b) == Cardinality(Members(b))

\* The positions of the image.
Positions == { <<x, y>> \in (0 .. (img.w - 1)) \X (0 .. (img.h - 1)) : TRUE }

InGrid(x, y) == x >= 0 /\ x < img.w /\ y >= 0 /\ y < img.h

\* The stamped (pre-invert) value at a position, also after the inversion.
StampedValue(p) ==
    IF ipc = "done" THEN 255 - out[Idx(img, p[1], p[2])] ELSE out[Idx(img, p[1], p[2])]

\* The classifier stamped the i-th recorded blob.
BlobStamped(i) == \A p \in Members(blobs[i]) : StampedValue(p) = FOREGROUND

\* The blobs the classifier loop has decided.
Decided == IF ipc = "done" THEN 1 .. Len(blobs) ELSE 1 .. ci

RECURSIVE SumOver(_, _)
\* The sum of the k-th coordinate over a set of pixels.
SumOver(S, k) ==
    IF S = {} THEN 0 ELSE LET p == CHOOSE e \in S : TRUE IN p[k] + SumOver(S \ {p}, k)

\* Some member pixel lies farther than 1.5 * n / pi from the mean of the
\* member pixels, n the pixel count.
SomeMemberTooFar(b) ==
    LET S == Members(b)
        n == Cardinality(S)
    IN  \E p \in S : FracGT(ScaledSqDist(p, n, SumOver(S, 1), SumOver(S, 2)),
                              n * n * n * n, KappaLo, KappaDen)

\* A dark pixel whose four neighbours are background or off the grid.
IsolatedDark(p) ==
    /\ PixelAt(img, p[1], p[2]) <= MAX_BLACK
    /\ \A k \in 1 .. Len(Deltas) :
          LET cx == p[1] + Deltas[k][1]
              cy == p[2] + Deltas[k][2]
          IN  InGrid(cx, cy) => PixelAt(img, cx, cy) > MAX_GRAY

\* The two rationals that bracket 9 / (4 pi^2) decide every comparison of the
\* recorded blobs alike, so comparing against KappaLo / KappaDen is exact.
KappaDecides ==
    \A i \in 1 .. Len(blobs) :
        \A k \in 1 .. Len(blobs[i]) :
            LET b == blobs[i]
                d == ScaledSqDist(b[k], Len(b), SumCoord(b, 1), SumCoord(b, 2))
                n == Len(b)
            IN  FracGT(d, n * n * n * n, KappaLo, KappaDen)
                    = FracGT(d, n * n * n * n, KappaHi, KappaDen)

\* C1: the classifier rejects every blob whose pixel count is below 3 or above
\* 10000, and the size test rejects no blob whose pixel count is in 3..10000.
C1_SizeFilterByPixelCount ==
    \A i \in Decided :
        LET n == PixelCount(blobs[i])
        IN  /\ (n < 3 \/ n > 10000) => ~BlobStamped(i)
            /\ (n >= 3 /\ n <= 10000) => ~SizeRejected(Len(blobs[i]))

\* C2: the list of blobs handed to the classifier holds only components of at
\* least 2 pixels; a one-pixel component never appears in it.
C2_NoSingletonRecorded ==
    \A i \in 1 .. Len(blobs) : PixelCount(blobs[i]) >= 2

\* C3: in every recorded blob every coordinate occurs exactly once.
C3_BlobCoordinatesUnique ==
    \A i \in 1 .. Len(blobs) :
        \A j, k \in 1 .. Len(blobs[i]) : blobs[i][j] = blobs[i][k] => j = k

\* C8: a blob whose pixel count is within the size bounds is accepted if and
\* only if no member pixel lies farther than 1.5 * pixel_count / pi from the
\* mean of the member pixels.
C8_AcceptedIffWithinRadius ==
    \A i \in Decided :
        (PixelCount(blobs[i]) >= 3 /\ PixelCount(blobs[i]) <= 10000)
            => (BlobStamped(i) <=> ~SomeMemberTooFar(blobs[i]))

\* C9: an isolated single dark pixel is never foreground in the stamped mask,
\* and is light (255) in the persisted, inverted mask.
C9_IsolatedDarkNeverForeground ==
    \A p \in Positions :
        IsolatedDark(p) =>
            /\ StampedValue(p) # FOREGROUND
            /\ ipc = "done" => out[Idx(img, p[1], p[2])] = 255

\* C9's case: the mask is persisted for a grid that holds an isolated dark
\* pixel beside a blob that was stamped.
C9_Witness ==
    /\ ipc = "done"
    /\ \E p \in Positions : IsolatedDark(p)
    /\ \E i \in 1 .. Len(blobs) : PixelCount(blobs[i]) = 1
    /\ \E p \in Positions : out[Idx(img, p[1], p[2])] = 0

\* The classifier accepts the i-th recorded blob.
Accepted(i) == ~SizeRejected(Len(blobs[i])) /\ ~ShapeRejected(blobs[i])

\* The member pixels of the accepted blobs among the first n recorded.
AcceptedMembers(n) ==
    UNION { Members(blobs[i]) : i \in { j \in 1 .. n : Accepted(j) } }

\* C11: the stamped mask is 255 exactly at the member pixels of the accepted
\* blobs and 0 elsewhere, and the persisted mask is 255 minus the stamped
\* value: 0 exactly at the accepted blobs' members and 255 elsewhere.
C11_MaskIsAcceptedBlobs ==
    \A p \in Positions :
        LET v == out[Idx(img, p[1], p[2])]
        IN  /\ ipc \in {"scan", "fill"} => v = 0
            /\ ipc = "classify" =>
                  v = (IF p \in AcceptedMembers(ci) THEN FOREGROUND ELSE 0)
            /\ ipc = "done" =>
                  v = 255 - (IF p \in AcceptedMembers(Len(blobs)) THEN FOREGROUND ELSE 0)

\* C11's case: the mask is persisted for a grid with an accepted blob, a
\* rejected blob and a pixel that belongs to no blob.
C11_Witness ==
    /\ ipc = "done"
    /\ \E i, j \in 1 .. Len(blobs) : Accepted(i) /\ ~Accepted(j)
    /\ \E p \in Positions : \A i \in 1 .. Len(blobs) : p \notin Members(blobs[i])
    /\ \E p \in Positions : out[Idx(img, p[1], p[2])] = 0

\* The dark pixels of the image.
DarkPixels == { p \in Positions : PixelAt(img, p[1], p[2]) <= MAX_BLACK }

\* C14: a straight line of N dark pixels on an otherwise background grid is
\* rejected whole from some length on: for every N >= 24 no pixel of the line
\* is foreground in the stamped mask.
C14_LongLineRejected ==
    (ipc = "done" /\ img \in LineImages /\ Cardinality(DarkPixels) >= 24)
        => \A p \in DarkPixels : StampedValue(p) = 0

\* C14's case: a line of at least 24 pixels across a background image was
\* detected as one blob that passed the size test, and the mask is persisted.
C14_Witness ==
    /\ ipc = "done"
    /\ \E n \in 24 .. MaxLine : img = EmbeddedLine(n)
    /\ Len(blobs) = 1
    /\ Members(blobs[1]) = DarkPixels
    /\ ~SizeRejected(Len(blobs[1]))

Adjacent4(p, r) ==
    \/ p[1] = r[1] /\ (p[2] = r[2] + 1 \/ r[2] = p[2] + 1)
    \/ p[2] = r[2] /\ (p[1] = r[1] + 1 \/ r[1] = p[1] + 1)

RECURSIVE Grow(_)
\* The closure of S under 4-neighbours of intensity at most MAX_GRAY.
Grow(S) ==
    LET N == { p \in Positions \ S :
                 /\ PixelAt(img, p[1], p[2]) <= MAX_GRAY
                 /\ \E r \in S : Adjacent4(p, r) }
    IN  IF N = {} THEN S ELSE Grow(S \cup N)

\* The maximal 4-connected regions of pixels <= MAX_GRAY that hold a pixel
\* <= MAX_BLACK.
Regions == { Grow({d}) : d \in DarkPixels }

\* C16: once detection is over, the detected components are exactly the
\* maximal 4-connected regions of pixels <= 60 that contain a pixel <= 40,
\* one component per region; so a pixel is a member of a component iff it is
\* <= 60 and 4-connected through pixels <= 60 to a pixel <= 40, and a region
\* of pixels in 41..60 alone gives no component.
C16_ComponentsAreRegions ==
    ipc \in {"classify", "done"} =>
        /\ { Members(blobs[i]) : i \in 1 .. Len(blobs) } = Regions
        /\ Len(blobs) = Cardinality(Regions)

\* C16's case: detection is over on a grid where a gray pixel joined a
\* component, another gray pixel joined none, and two dark pixels that touch
\* only diagonally lie in different components.
C16_Witness ==
    /\ ipc = "classify"
    /\ \E p \in Positions \ DarkPixels :
          /\ PixelAt(img, p[1], p[2]) <= MAX_GRAY
          /\ \E i \in 1 .. Len(blobs) : p \in Members(blobs[i])
    /\ \E p \in Positions \ DarkPixels :
          /\ PixelAt(img, p[1], p[2]) <= MAX_GRAY
          /\ \A i \in 1 .. Len(blobs) : p \notin Members(blobs[i])
    /\ \E p, r \in DarkPixels :
          /\ r[1] = p[1] + 1 /\ r[2] = p[2] + 1
          /\ \E i, j \in 1 .. Len(blobs) :
                i # j /\ p \in Members(blobs[i]) /\ r \in Members(blobs[j])

\* The pixels a blob took at a dequeue (its first entry is the seed, pushed
\* when the fill started).
Taken(b) == Tail(b)

\* Every blob so far: the recorded ones and the one being filled.
AllBlobs == IF blob = <<>> THEN blobs ELSE Append(blobs, blob)

\* C18: each pixel is marked visited and taken into a blob at one dequeue at
\* most, however often it was enqueued; the visited pixels are exactly the
\* taken ones; a fill never starts at a visited pixel; and no pixel is a
\* member of two components.
C18_VisitedDiscipline ==
    /\ \A i \in 1 .. Len(AllBlobs) :
          \A k, l \in 1 .. Len(Taken(AllBlobs[i])) :
              k # l => Taken(AllBlobs[i])[k] # Taken(AllBlobs[i])[l]
    /\ \A i, j \in 1 .. Len(AllBlobs) :
          i # j => Members(AllBlobs[i]) \cap Members(AllBlobs[j]) = {}
    /\ \A p \in Positions :
          vis[Idx(img, p[1], p[2])]
              <=> \E i \in 1 .. Len(AllBlobs) : p \in Members(Taken(AllBlobs[i]))
    /\ (ipc = "fill" /\ Len(blob) = 1) => ~vis[Idx(img, blob[1][1], blob[1][2])]

\* C18's case: a second fill is about to dequeue an entry of a pixel that an
\* earlier dequeue of the same fill has visited.
C18_Witness ==
    /\ ipc = "fill"
    /\ Len(blobs) >= 1
    /\ q # <<>>
    /\ vis[Idx(img, Head(q)[1], Head(q)[2])]
    /\ Head(q) \in Members(Taken(blob))

\* All coordinates held by the queue and the blobs.
HeldCoordinates ==
    { q[k] : k \in 1 .. Len(q) }
        \cup UNION { Members(AllBlobs[i]) : i \in 1 .. Len(AllBlobs) }

\* C19: every coordinate the flood fill holds, and so every index it uses on
\* the visited array and the image, is on the grid; and for the pixel about
\* to be dequeued, each neighbour coordinate, wrapped as a u32 at column or
\* row 0, passes the bounds test only if it is on the grid.
C19_IndicesInGrid ==
    /\ \A c \in HeldCoordinates :
          InGrid(c[1], c[2]) /\ Idx(img, c[1], c[2]) \in DOMAIN vis
    /\ (ipc = "scan" /\ pos < img.w * img.h) => InGrid(PosX, PosY)
    /\ (ipc = "fill" /\ q # <<>>) =>
          \A k \in 1 .. Len(Deltas) :
              LET cx == WrappingAddSigned(Head(q)[1], Deltas[k][1])
                  cy == WrappingAddSigned(Head(q)[2], Deltas[k][2])
              IN  InGrid(cx, cy) <=> ~(UGe(cx, img.w) \/ UGe(cy, img.h))

\* C19's case: the pixel at column 0 and row 0 was dequeued, its wrapped left
\* and upper neighbours were skipped and an on-grid neighbour was enqueued.
C19_Witness ==
    /\ ipc = "fill"
    /\ Len(blob) = 2
    /\ blob[2] = <<0, 0>>
    /\ q # <<>>
    /\ WrappingAddSigned(0, -1) < 0

-----------------------------------------------------------------------------
NextImage ==
    \/ ScanSkip
    \/ ScanSeed
    \/ DequeueVisited
    \/ DequeueExpand
    \/ FillDone
    \/ ScanDone
    \/ RejectSize
    \/ RejectShape
    \/ StampBlob
    \/ Invert

SpecImage == InitImage /\ [][NextImage]_vars

-----------------------------------------------------------------------------
(* The file system.  A directory tree is held in preorder, each node with  *)
(* its depth d >= 1 and its kind k:                                        *)
(*   "file"      a regular file                                            *)
(*   "dir"       a directory that fs::read_dir can list                    *)
(*   "baddir"    a directory for which fs::read_dir fails                  *)
(*   "special"   neither a regular file nor a directory                    *)
(*   "nometa"    an entry whose metadata cannot be read                    *)
(*   "badentry"  an entry for which the ReadDir iterator yields Err        *)
(* A directory lists its children in preorder.                             *)

Kinds == {"file", "dir", "baddir", "special", "nometa", "badentry"}

\* The names of the entries of a directory, by position in its listing.
NameTable == <<"a", "b", "c", "d", "e", "f", "g", "h">>

\* The output directory (args.out_dir) and a root path that does not exist.
OutDir == <<"out">>

MissingPath == <<"missing">>

\* The depths the node after the preorder listing s may have.
NextDepths(s) ==
    IF s = <<>> THEN {1}
    ELSE 1 .. (IF s[Len(s)].k = "dir" THEN s[Len(s)].d + 1 ELSE s[Len(s)].d)

RECURSIVE Forests(_)
\* The directory trees of at most n nodes.
Forests(n) ==
    IF n = 0 THEN {<<>>}
    ELSE LET P == Forests(n - 1)
         IN  P \cup UNION { { Append(s, [d |-> d, k |-> k]) : d \in NextDepths(s), k \in Kinds }
                            : s \in { t \in P : Len(t) = n - 1 } }

Max(S) == CHOOSE m \in S : \A e \in S : e <= m

\* The directory holding node i; 0 for a node of the top level.
Parent(t, i) ==
    IF t[i].d = 1 THEN 0 ELSE Max({ j \in 1 .. (i - 1) : t[j].d = t[i].d - 1 })

\* The listing of directory i (0: the top level), in order.
ChildrenOf(t, i) ==
    SelectSeq([j \in 1 .. Len(t) |-> j], LAMBDA j : Parent(t, j) = i)

NameOf(t, i) == NameTable[Cardinality({ j \in 1 .. i : Parent(t, j) = Parent(t, i) })]

RECURSIVE PathOf(_, _)
PathOf(t, i) == IF i = 0 THEN <<>> ELSE Append(PathOf(t, Parent(t, i)), NameOf(t, i))

\* meta.is_dir(), meta.is_file()
IsDirMeta(k) == k \in {"dir", "baddir"}

IsFileMeta(k) == k = "file"

-----------------------------------------------------------------------------
(* GenResult (main.rs 15-76).  An Option is a sequence of length 0 (None)  *)
(* or 1 (Some).  An item is Ok(path) or Err; `at` records the node the     *)
(* item is about (0: the root path itself when it does not exist).         *)

OkItem(path, i) == [ok |-> TRUE, path |-> path, at |-> i, err |-> ""]

ErrItem(i, what) == [ok |-> FALSE, path |-> <<>>, at |-> i, err |-> what]

\* GenResult::Dir(reader, container): the reader's directory and what it has
\* left to list.
DirGen(path, rest, container) ==
    [tag |-> "Dir", path |-> path, rest |-> rest, container |-> container, val |-> <<>>]

\* GenResult::Single(val)
SingleGen(val) ==
    [tag |-> "Single", path |-> <<>>, rest |-> <<>>, container |-> <<>>, val |-> val]

\* A from_meta_path that turns an entry that is neither file nor directory
\* into an Err item.
FromMetaPathSpecialErr(i, path) ==
    IF IsDirMeta(fs[i].k)
    THEN IF fs[i].k = "dir" THEN DirGen(path, ChildrenOf(fs, i), <<>>)
         ELSE SingleGen(<<ErrItem(i, "read_dir")>>)
    ELSE IF IsFileMeta(fs[i].k) THEN SingleGen(<<OkItem(path, i)>>)
    ELSE SingleGen(<<ErrItem(i, "special")>>)

\* GenResult::from_meta_path(meta, path), for the node i found at path
FromMetaPath(i, path) ==
    IF IsDirMeta(fs[i].k)
    THEN IF fs[i].k = "dir" THEN DirGen(path, ChildrenOf(fs, i), <<>>)
         ELSE SingleGen(<<ErrItem(i, "read_dir")>>)
    ELSE IF IsFileMeta(fs[i].k) THEN SingleGen(<<OkItem(path, i)>>)
    ELSE SingleGen(<<>>)

\* impl From<PathBuf> for GenResult: the root r given as the path `value`
FromPath(r, value) ==
    IF r = 0 \/ fs[r].k = "nometa" THEN SingleGen(<<ErrItem(r, "metadata")>>)
    ELSE FromMetaPath(r, value)

\* A reader that an entry's error exhausts: nothing is listed after it.
ReadEntryErrEnds(g) ==
    LET i    == Head(g.rest)
        adv  == [g EXCEPT !.rest = Tail(g.rest)]
        end  == [g EXCEPT !.rest = <<>>]
    IN  IF fs[i].k = "badentry" THEN [res |-> <<ErrItem(i, "entry")>>, g |-> end]
        ELSE IF fs[i].k = "nometa" THEN [res |-> <<ErrItem(i, "metadata")>>, g |-> end]
        ELSE [res |-> <<>>,
              g   |-> [adv EXCEPT !.container =
                          <<FromMetaPath(i, Append(g.path, NameOf(fs, i)))>>]]

\* What an entry of the listing does to the Dir g that reads it: the `?` of
\* `res?` and of `entry.metadata()?` give Err(err), else the container is set.
\* The reader has advanced in both cases.
ReadEntry(g) ==
    LET i    == Head(g.rest)
        adv  == [g EXCEPT !.rest = Tail(g.rest)]
    IN  IF fs[i].k = "badentry" THEN [res |-> <<ErrItem(i, "entry")>>, g |-> adv]
        ELSE IF fs[i].k = "nometa" THEN [res |-> <<ErrItem(i, "metadata")>>, g |-> adv]
        ELSE [res |-> <<>>,
              g   |-> [adv EXCEPT !.container =
                          <<FromMetaPath(i, Append(g.path, NameOf(fs, i)))>>]]

RECURSIVE GenNextStopsAfterContainer(_)
\* A next() that returns None when the pending container is exhausted,
\* instead of going on with the reader.
GenNextStopsAfterContainer(g) ==
    IF g.tag = "Single" THEN [item |-> g.val, g |-> [g EXCEPT !.val = <<>>]]
    ELSE IF g.container # <<>>
    THEN LET r == GenNextStopsAfterContainer(g.container[1])
         IN  IF r.item # <<>>
             THEN [item |-> r.item, g |-> [g EXCEPT !.container = <<r.g>>]]
             ELSE [item |-> <<>>, g |-> [g EXCEPT !.container = <<>>]]
    ELSE IF g.rest = <<>> THEN [item |-> <<>>, g |-> g]
    ELSE LET e == ReadEntry(g)
         IN  IF e.res = <<>> THEN GenNextStopsAfterContainer(e.g)
             ELSE [item |-> e.res, g |-> e.g]

RECURSIVE GenNext(_)
\* Iterator::next: the item (None: <<>>) and the GenResult after the call.
GenNext(g) ==
    IF g.tag = "Single" THEN [item |-> g.val, g |-> [g EXCEPT !.val = <<>>]]
    ELSE IF g.container # <<>>
    THEN LET r == GenNext(g.container[1])
         IN  IF r.item # <<>>
             THEN [item |-> r.item, g |-> [g EXCEPT !.container = <<r.g>>]]
             ELSE GenNext([g EXCEPT !.container = <<>>])
    ELSE IF g.rest = <<>> THEN [item |-> <<>>, g |-> g]
    ELSE LET e == ReadEntry(g)
         IN  IF e.res = <<>> THEN GenNext(e.g)
             ELSE [item |-> e.res, g |-> e.g]

-----------------------------------------------------------------------------
(* The relative path and the destination (main.rs 89-105, 169) *)

IsPrefix(a, b) == Len(a) <= Len(b) /\ SubSeq(b, 1, Len(a)) = a

\* rp.strip_prefix(&base): <<>> is Err, <<rel>> is Ok(rel)
StripPrefix(rp, base) ==
    IF IsPrefix(base, rp) THEN <<SubSeq(rp, Len(base) + 1, Len(rp))>> ELSE <<>>

\* A file name that keeps the parent path.
FileNameWhole(rp) == IF rp = <<>> THEN <<>> ELSE <<rp>>

\* rp.file_name(): the last component, None for a path without one
FileName(rp) == IF rp = <<>> THEN <<>> ELSE << <<rp[Len(rp)]>> >>

\* The closure mapped over the GenResult: Ok(rp) becomes Ok((rp, rel)).
MapRel(item, base, dir) ==
    IF ~item.ok THEN [item EXCEPT !.path = <<>>] @@ [rel |-> <<>>]
    ELSE LET r == IF dir THEN StripPrefix(item.path, base) ELSE FileName(item.path)
         IN  IF r = <<>>
             THEN [ok |-> FALSE, path |-> <<>>, at |-> item.at, err |-> "path", rel |-> <<>>]
             ELSE item @@ [rel |-> r[1]]

\* root_path.join(rel)
Target(rel) == OutDir \o rel

-----------------------------------------------------------------------------
(* One enumeration: the GenResult of one root pulled until it ends *)

IdleImage ==
    /\ img = [w |-> 0, h |-> 0, px |-> <<>>]
    /\ vis = <<>>
    /\ out = <<>>
    /\ q = <<>>
    /\ blob = <<>>
    /\ blobs = <<>>
    /\ pos = 0
    /\ ci = 0
    /\ ipc = "off"

\* The roots a run may be given: a node of the tree, or a missing path.
RootsOf(t) == {0} \cup { i \in 1 .. Len(t) : t[i].k # "badentry" }

RootPath(r) == IF r = 0 THEN MissingPath ELSE PathOf(fs, r)

InitEnum ==
    /\ IdleImage
    /\ IdlePool
    /\ fs \in Forests(MaxNodes)
    /\ root \in RootsOf(fs)
    /\ gen = <<>>
    /\ isDir = FALSE
    /\ yielded = <<>>
    /\ epc = "open"

\* let res: GenResult = base.clone().into(); let is_dir = matches!(res, Dir)
OpenRoot ==
    /\ epc = "open"
    /\ gen' = <<FromPath(root, RootPath(root))>>
    /\ isDir' = (FromPath(root, RootPath(root)).tag = "Dir")
    /\ epc' = "iter"
    /\ UNCHANGED <<imgVars, poolVars, fs, root, yielded>>

\* next() on the mapped iterator gives Some(item).
PullItem ==
    /\ epc = "iter"
    /\ LET r == GenNext(gen[1])
       IN  /\ r.item # <<>>
           /\ yielded' = Append(yielded, MapRel(r.item[1], RootPath(root), isDir))
           /\ gen' = <<r.g>>
    /\ UNCHANGED <<imgVars, poolVars, fs, root, isDir, epc>>

\* next() gives None: the sequence has ended.
PullEnd ==
    /\ epc = "iter"
    /\ LET r == GenNext(gen[1])
       IN  /\ r.item = <<>>
           /\ gen' = <<r.g>>
    /\ epc' = "end"
    /\ UNCHANGED <<imgVars, poolVars, fs, root, isDir, yielded>>

-----------------------------------------------------------------------------
(* What the claims about the enumeration speak of *)

RECURSIVE IsUnder(_, _, _)
\* Node i lies below directory r.
IsUnder(t, r, i) ==
    /\ i # 0
    /\ t[i].d > t[r].d
    /\ (Parent(t, i) = r \/ IsUnder(t, r, Parent(t, i)))

\* The entries met when the directory root is enumerated.
Entries == { i \in 1 .. Len(fs) : IsUnder(fs, root, i) }

ErrKinds == {"badentry", "nometa", "baddir"}

DirRootEnded == epc = "end" /\ root # 0 /\ fs[root].k = "dir"

FileRootEnded == epc = "end" /\ root # 0 /\ fs[root].k = "file"

\* The positions of the yielded sequence that are about node i.
ItemsAt(i) == { k \in 1 .. Len(yielded) : yielded[k].at = i }

\* The path of node i relative to the root.
RelativeToRoot(i) == SubSeq(PathOf(fs, i), Len(PathOf(fs, root)) + 1, Len(PathOf(fs, i)))

\* C4 as stated: every entry that is neither a regular file nor a directory
\* produces exactly one Err item.
C4_SpecialEntryYieldsErr ==
    DirRootEnded =>
        \A i \in Entries :
            fs[i].k = "special" =>
                /\ Cardinality(ItemsAt(i)) = 1
                /\ \A k \in ItemsAt(i) : ~yielded[k].ok

\* C4 as amended: an entry that is neither a regular file nor a directory
\* produces no item at all, and every Err item of a directory root is about
\* an entry that could not be read, whose metadata could not be read or that
\* could not be listed.
C4_SpecialEntrySkipped ==
    /\ \A k \in 1 .. Len(yielded) :
          yielded[k].at # 0 => fs[yielded[k].at].k # "special"
    /\ DirRootEnded =>
          /\ \A i \in Entries : fs[i].k = "special" => ItemsAt(i) = {}
          /\ \A k \in 1 .. Len(yielded) :
                ~yielded[k].ok => fs[yielded[k].at].k \in ErrKinds

\* C4's case: a directory root was enumerated to its end, it holds a special
\* entry, and a file listed after that entry was yielded.
C4_Witness ==
    /\ DirRootEnded
    /\ \E i, j \in Entries :
          /\ fs[i].k = "special"
          /\ j > i
          /\ fs[j].k = "file"
          /\ \E k \in ItemsAt(j) : yielded[k].ok

\* C5: an entry that cannot be read, whose metadata cannot be read or that
\* cannot be listed gives exactly one Err item, at its place in the order of
\* the listing, and every entry listed after it (a remaining sibling, what is
\* below one, a remaining sibling of an ancestor) still gives its item.
C5_FaultIsolation ==
    DirRootEnded =>
        \A e \in Entries :
            fs[e].k \in ErrKinds =>
                /\ Cardinality(ItemsAt(e)) = 1
                /\ \A k \in ItemsAt(e) :
                      /\ ~yielded[k].ok
                      /\ \A i \in Entries :
                            (i > e /\ fs[i].k \in ErrKinds \cup {"file"}) =>
                                \E l \in ItemsAt(i) : l > k /\ yielded[l].ok = (fs[i].k = "file")
                      /\ \A l \in 1 .. Len(yielded) : l > k => yielded[l].at > e

\* C5's case: an Err item was followed by the file below a directory that is
\* listed after the failing entry.
C5_Witness ==
    /\ DirRootEnded
    /\ \E k, l \in 1 .. Len(yielded) :
          /\ k < l
          /\ ~yielded[k].ok
          /\ yielded[l].ok
          /\ fs[yielded[l].at].d > fs[yielded[k].at].d

\* C6: a directory root yields every regular file below it exactly once and
\* nothing else as Ok; the relative path is the path relative to the root and
\* the destination is the output directory joined with it.
C6_EveryFileOnceWithRelativePath ==
    DirRootEnded =>
        /\ \A i \in Entries :
              fs[i].k = "file" =>
                  Cardinality({ k \in 1 .. Len(yielded) :
                                  yielded[k].ok /\ yielded[k].path = PathOf(fs, i) }) = 1
        /\ \A k \in 1 .. Len(yielded) :
              yielded[k].ok =>
                  \E i \in Entries :
                      /\ fs[i].k = "file"
                      /\ yielded[k].path = PathOf(fs, i)
                      /\ yielded[k].rel = RelativeToRoot(i)
                      /\ Target(yielded[k].rel) = OutDir \o RelativeToRoot(i)

\* C6's case: the root holds a file and a subdirectory that holds a file
\* (root/a.png, root/sub/b.png), and both were yielded.
C6_Witness ==
    /\ DirRootEnded
    /\ \E i, j \in Entries :
          /\ fs[i].k = "file" /\ Parent(fs, i) = root
          /\ fs[j].k = "file" /\ Parent(fs, j) # root
          /\ \E k, l \in 1 .. Len(yielded) :
                /\ yielded[k].ok /\ yielded[k].at = i
                /\ yielded[l].ok /\ yielded[l].at = j
                /\ Len(yielded[l].rel) = 2

\* C10: a root that is a regular file yields exactly one item; its relative
\* path is the base name alone and its destination the output directory
\* joined with the base name.
C10_SingleFileRoot ==
    FileRootEnded =>
        /\ Len(yielded) = 1
        /\ yielded[1].ok
        /\ yielded[1].path = PathOf(fs, root)
        /\ yielded[1].rel = <<NameOf(fs, root)>>
        /\ Target(yielded[1].rel) = OutDir \o <<NameOf(fs, root)>>

\* C10's case: the root is a file two directories down (x/y/z.png).
C10_Witness ==
    /\ FileRootEnded
    /\ Len(PathOf(fs, root)) = 3
    /\ Len(yielded) = 1

-----------------------------------------------------------------------------
NextEnum ==
    \/ OpenRoot
    \/ PullItem
    \/ PullEnd

SpecEnum == InitEnum /\ [][NextEnum]_vars

-----------------------------------------------------------------------------
(* main's pipeline (main.rs 85-191): par_iter over the roots, flat_map to  *)
(* each root's mapped GenResult behind par_bridge, map through the         *)
(* per-file closure, collect.  Workers pull from a root's iterator one     *)
(* at a time (par_bridge holds it in a mutex), run the closure on what     *)
(* they pulled, and hand the outcome to the collection.                    *)

Workers == {"w1", "w2"}

\* The stage of the closure at which a file's processing fails: decoding
\* (110), the 8-bit grayscale view (112), create_dir_all (171), save (173).
FailStages == {"none", "decode", "format", "mkdir", "save"}

Idle == [pc |-> "idle", id |-> 0, res |-> <<>>]

\* A closure that gives up the error of a failing stage and reports success.
ClosureResultIgnoresFailure(item, stage) ==
    IF ~item.ok THEN [ok |-> FALSE, target |-> <<>>, err |-> item.err]
    ELSE [ok |-> TRUE, target |-> Target(item.rel), err |-> ""]

\* The closure of main.rs 108-175 on one item: `prev?`, then each stage's `?`,
\* then Ok((realpath, target)) with target = root_path.join(rel).
ClosureResult(item, stage) ==
    IF ~item.ok THEN [ok |-> FALSE, target |-> <<>>, err |-> item.err]
    ELSE IF stage # "none" THEN [ok |-> FALSE, target |-> <<>>, err |-> stage]
    ELSE [ok |-> TRUE, target |-> Target(item.rel), err |-> ""]

\* A collection that keeps the successes only.
CollectedOkOnly(c, o) == IF o.ok THEN Append(c, o) ELSE c

\* collect::<Vec<Result<..>>>(): the outcome joins the collection.
Collected(c, o) == Append(c, o)

\* completion.iter().filter(|v| v.is_ok()).count(), and is_err
CountOk(c) == Cardinality({ k \in 1 .. Len(c) : c[k].ok })

CountErr(c) == Cardinality({ k \in 1 .. Len(c) : ~c[k].ok })

\* The trees the pool runs over: files, directories and entries whose
\* metadata cannot be read (the failures of listing are SpecEnum's).
PoolKinds == {"file", "dir", "nometa"}

PoolForests == { t \in Forests(PoolNodes) : \A i \in 1 .. Len(t) : t[i].k \in PoolKinds }

InitPool ==
    /\ IdleImage
    /\ fs \in PoolForests
    /\ roots \in { <<a, b>> : a \in RootsOf(fs), b \in RootsOf(fs) }
    /\ pgens = [r \in 1 .. Len(roots) |-> [st |-> "new", gen |-> <<>>, dir |-> FALSE]]
    /\ wk = [w \in Workers |-> Idle]
    /\ completion = <<>>
    /\ failed = {}
    /\ summary = <<>>
    /\ yielded = <<>>
    /\ root = 0
    /\ gen = <<>>
    /\ isDir = FALSE
    /\ epc = "off"

\* The flat_map closure builds the root's GenResult (main.rs 89-91).
PoolOpen(r) ==
    /\ pgens[r].st = "new"
    /\ LET g == FromPath(roots[r], RootPath(roots[r]))
       IN  pgens' = [pgens EXCEPT ![r] = [st |-> "open", gen |-> <<g>>, dir |-> g.tag = "Dir"]]
    /\ UNCHANGED <<imgVars, enumVars, roots, wk, completion, failed, summary>>

\* An idle worker pulls the next item of root r's iterator.
PoolPull(w, r) ==
    /\ wk[w].pc = "idle"
    /\ pgens[r].st = "open"
    /\ LET n == GenNext(pgens[r].gen[1])
       IN  /\ n.item # <<>>
           /\ yielded' = Append(yielded,
                 MapRel(n.item[1], RootPath(roots[r]), pgens[r].dir) @@ [r |-> r])
           /\ pgens' = [pgens EXCEPT ![r].gen = <<n.g>>]
           /\ wk' = [wk EXCEPT ![w] = [pc |-> "have", id |-> Len(yielded) + 1, res |-> <<>>]]
    /\ UNCHANGED <<imgVars, fs, root, gen, isDir, epc, roots, completion, failed, summary>>

\* An idle worker finds root r's iterator at its end.
PoolEnd(w, r) ==
    /\ wk[w].pc = "idle"
    /\ pgens[r].st = "open"
    /\ LET n == GenNext(pgens[r].gen[1])
       IN  /\ n.item = <<>>
           /\ pgens' = [pgens EXCEPT ![r] = [st |-> "ended", gen |-> <<n.g>>, dir |-> @.dir]]
    /\ UNCHANGED <<imgVars, enumVars, roots, wk, completion, failed, summary>>

\* The worker runs the closure on its item; a stage may fail.
PoolProcess(w) ==
    /\ wk[w].pc = "have"
    /\ \E stage \in FailStages :
          /\ yielded[wk[w].id].ok \/ stage = "none"
          /\ wk' = [wk EXCEPT ![w].pc = "result",
                              ![w].res = <<ClosureResult(yielded[wk[w].id], stage)>>]
          /\ failed' = IF stage = "none" THEN failed ELSE failed \cup {wk[w].id}
    /\ UNCHANGED <<imgVars, enumVars, roots, pgens, completion, summary>>

\* The worker's outcome joins the collection.
PoolCollect(w) ==
    /\ wk[w].pc = "result"
    /\ completion' = Collected(completion, wk[w].res[1] @@ [id |-> wk[w].id])
    /\ wk' = [wk EXCEPT ![w] = Idle]
    /\ UNCHANGED <<imgVars, enumVars, roots, pgens, failed, summary>>

\* Every iterator has ended and every worker is idle: main prints the counts
\* and returns Ok(()).
PoolSummary ==
    /\ summary = <<>>
    /\ \A r \in 1 .. Len(roots) : pgens[r].st = "ended"
    /\ \A w \in Workers : wk[w].pc = "idle"
    /\ summary' = <<[ok |-> CountOk(completion), err |-> CountErr(completion)]>>
    /\ UNCHANGED <<imgVars, enumVars, roots, pgens, wk, completion, failed>>

\* What the claim about the pipeline speaks of

RECURSIVE Drain(_)
\* The items a GenResult yields when it is pulled to its end by one caller.
Drain(g) ==
    LET n == GenNext(g)
    IN  IF n.item = <<>> THEN <<>> ELSE <<n.item[1]>> \o Drain(n.g)

\* The nodes the yielded items of root r are about, in the order yielded.
YieldedOf(r) ==
    LET s == SelectSeq(yielded, LAMBDA it : it.r = r)
    IN  [k \in 1 .. Len(s) |-> s[k].at]

DrainedOf(r) ==
    LET s == Drain(FromPath(roots[r], RootPath(roots[r])))
    IN  [k \in 1 .. Len(s) |-> s[k].at]

\* C7: the collection holds exactly one outcome per item the enumerators of
\* all roots yield, the printed counts add up to the number of items, and an
\* outcome is Err exactly when its own item was an Err or a stage of its own
\* task failed.
C7_OneOutcomePerItem ==
    /\ \A c \in 1 .. Len(completion) :
          LET id == completion[c].id
          IN  /\ completion[c].ok = (yielded[id].ok /\ id \notin failed)
              /\ completion[c].ok => completion[c].target = OutDir \o yielded[id].rel
    /\ summary # <<>> =>
          /\ \A r \in 1 .. Len(roots) : YieldedOf(r) = DrainedOf(r)
          /\ Len(completion) = Len(yielded)
          /\ \A id \in 1 .. Len(yielded) :
                Cardinality({ c \in 1 .. Len(completion) : completion[c].id = id }) = 1
          /\ summary[1].ok + summary[1].err = Len(yielded)
          /\ summary[1].err =
                Cardinality({ id \in 1 .. Len(yielded) : ~yielded[id].ok \/ id \in failed })

\* C7's case: the run has printed its counts after a task whose stage failed
\* and a task, pulled later, that succeeded.
C7_Witness ==
    /\ summary # <<>>
    /\ \E a, b \in 1 .. Len(completion) :
          /\ completion[a].ok
          /\ ~completion[b].ok /\ completion[b].id \in failed
          /\ completion[b].id < completion[a].id

\* C17: two distinct files that the enumerators yield are never mapped to the
\* same destination path.
C17_DistinctDestinations ==
    \A i, j \in 1 .. Len(yielded) :
        (yielded[i].ok /\ yielded[j].ok /\ yielded[i].at # yielded[j].at)
            => Target(yielded[i].rel) # Target(yielded[j].rel)

NextPool ==
    \/ \E r \in 1 .. Len(roots) : PoolOpen(r)
    \/ \E w \in Workers, r \in 1 .. Len(roots) : PoolPull(w, r)
    \/ \E w \in Workers, r \in 1 .. Len(roots) : PoolEnd(w, r)
    \/ \E w \in Workers : PoolProcess(w)
    \/ \E w \in Workers : PoolCollect(w)
    \/ PoolSummary

SpecPool == InitPool /\ [][NextPool]_vars

-----------------------------------------------------------------------------
(* Termination: one image, one enumeration or one run of the pipeline, with *)
(* the program never halting while a step of it is possible.                *)

LiveImages ==
    { im \in Images :
        \/ im \in LineImages \cup DiskImages
        \/ im.w <= LiveSide /\ im.h <= LiveSide }

InitLive ==
    \/ InitImage /\ img \in LiveImages
    \/ InitEnum /\ Len(fs) <= LiveNodes
    \/ InitPool /\ Len(fs) <= LiveNodes

NextLive ==
    \/ ipc # "off" /\ NextImage
    \/ epc # "off" /\ NextEnum
    \/ roots # <<>> /\ NextPool

SpecLive == InitLive /\ [][NextLive]_vars /\ WF_vars(NextLive)

\* C13: every flood fill empties its queue and every image reaches its saved
\* mask; every enumeration reaches its end; in a run of the pipeline every
\* root's enumeration ends, every yielded item receives an outcome, and the
\* run prints its summary and returns Ok, whatever failed.
C13_Terminates ==
    /\ (ipc = "fill") ~> (q = <<>>)
    /\ (ipc = "scan") ~> (ipc = "done")
    /\ (epc = "open") ~> (epc = "end")
    /\ (roots # <<>>) ~>
          /\ \A r \in 1 .. Len(roots) : pgens[r].st = "ended"
          /\ \A id \in 1 .. Len(yielded) :
                \E c \in 1 .. Len(completion) : completion[c].id = id
          /\ summary # <<>>

\* C13's case: a run over a root that does not exist and a directory whose
\* file failed in a stage has printed its summary with no success at all.
C13_Witness ==
    /\ summary # <<>>
    /\ \E r \in 1 .. Len(roots) : roots[r] = 0
    /\ Len(completion) >= 2
    /\ \A c \in 1 .. Len(completion) : ~completion[c].ok
    /\ failed # {}
    /\ summary[1].ok = 0

=============================================================================
